---------------------------- MODULE Spec2Model ----------------------------
(***************************************************************************)
(* Invest-vs-buy Monte Carlo engine: mortgage amortization, GBM path       *)
(* simulators and the fair composition of the two strategies               *)
(* (core/mortgage.py, core/housing.py, core/mc_equity.py, core/compose.py).*)
(*                                                                         *)
(* Numbers.  The program computes in binary floating point.  Here every    *)
(* real is a scaled integer:                                               *)
(*   money   in units of 1/MS  (MS = 1000: one thousandth of a dollar),    *)
(*   factors (rates, growth factors, ratios, normal draws) in units 1/FS.  *)
(* Sums and differences are exact; products and quotients are rounded to   *)
(* the nearest multiple of the scale, which plays the part of float        *)
(* rounding.                                                               *)
(***************************************************************************)
EXTENDS Integers, Sequences, FiniteSets, TLC

MS == 10^3
FS == 10^8
IntMax == 2^30 + (2^30 - 1)

----------------------------------------------------------------------------
(* Scaled arithmetic *)

Abs(x) == IF x < 0 THEN -x ELSE x
Sgn(x) == IF x < 0 THEN -1 ELSE 1
Max(a, b) == IF a >= b THEN a ELSE b
Min(a, b) == IF a <= b THEN a ELSE b

\* The loops below carry their running state as one tuple, so that each pass
\* starts from computed values.

\* The widest radix K (a power of two) with 2*K*c within the machine integer.
RECURSIVE Radix(_, _)
Radix(c, k) == IF k <= (IntMax \div c) \div 4 THEN Radix(c, 2 * k) ELSE k

\* The weight K^i of the leading radix-K digit of b.  t = <<b, K, p>>.
RECURSIVE TopWeight(_)
TopWeight(t) ==
  IF t[1] \div t[3] < t[2] THEN t[3] ELSE TopWeight(<<t[1], t[2], t[3] * t[2]>>)

\* Horner's rule over the radix-K digits of b, leading digit first:
\* t = <<a, b, c, K, p, q, r>> where the digits above weight p are done and
\* a * (those digits) = q*c + r.
RECURSIVE MulDivHorner(_)
MulDivHorner(t) ==
  LET a == t[1]
      c == t[3]
      K == t[4]
      p == t[5]
      d == (t[2] \div p) % K
      n == K * t[7] + (a % c) * d
  IN  IF p = 0 THEN <<t[6], t[7]>>
      ELSE MulDivHorner(<<a, t[2], c, K, p \div K,
                          K * t[6] + (a \div c) * d + n \div c, n % c>>)

\* <<q, r>> with a*b = q*c + r and 0 <= r < c, for a, b >= 0 and 0 < c < 2^29,
\* computed without forming a*b when it does not fit the machine integer.
MulDivQR(a, b, c) ==
  IF b = 0 THEN <<0, 0>>
  ELSE IF a <= IntMax \div b THEN <<(a * b) \div c, (a * b) % c>>
  ELSE LET K == Radix(c, 2)
       IN  MulDivHorner(<<a, b, c, K, TopWeight(<<b, K, 1>>), 0, 0>>)

\* a*b/c rounded to the nearest integer (halves away from zero), any signs, c # 0.
MulDiv(a, b, c) ==
  LET x  == Abs(a)
      y  == Abs(b)
      z  == Abs(c)
      qr == MulDivQR(Max(x, y), Min(x, y), z)
  IN  Sgn(a) * Sgn(b) * Sgn(c) * (qr[1] + (IF 2 * qr[2] >= z THEN 1 ELSE 0))

FMul(x, y) == MulDiv(x, y, FS)      \* factor * factor, or money * factor
FDiv(x, y) == MulDiv(x, FS, y)      \* factor / factor, or money / money

\* x ** n for a natural n, by squaring.  t = <<base, n, acc>>: acc * base**n.
RECURSIVE PowNatLoop(_)
PowNatLoop(t) ==
  IF t[2] = 0 THEN t[3]
  ELSE PowNatLoop(<<IF t[2] > 1 THEN FMul(t[1], t[1]) ELSE t[1],
                    t[2] \div 2,
                    IF t[2] % 2 = 1 THEN FMul(t[3], t[1]) ELSE t[3]>>)
PowNat(x, n) == PowNatLoop(<<x, n, FS>>)

\* exp(x): the Taylor series, summed until a term truncates to 0.
\* t = <<x, term, k, acc>>: term = x^(k-1)/(k-1)!, acc the sum of the terms before it.
RECURSIVE ExpSum(_)
ExpSum(t) ==
  IF t[2] = 0 THEN t[4]
  ELSE ExpSum(<<t[1], MulDiv(FMul(t[2], t[1]), 1, t[3]), t[3] + 1, t[4] + t[2]>>)
Exp(x) == ExpSum(<<x, FS, 1, 0>>)

\* ln(x) for x > 0: 2*atanh(y) with y = (x-1)/(x+1), the odd series in y.
\* t = <<y^2, pw, k, acc>>: pw = |y|^k, acc the sum of the terms before it.
RECURSIVE LnSum(_)
LnSum(t) ==
  IF t[2] = 0 THEN t[4]
  ELSE LnSum(<<t[1], FMul(t[2], t[1]), t[3] + 2, t[4] + t[2] \div t[3]>>)
Ln(x) ==
  LET y == FDiv(x - FS, x + FS)
  IN  2 * Sgn(y) * LnSum(<<FMul(y, y), Abs(y), 1, 0>>)

\* base ** (num/den) for base > 0: 1 exactly when the exponent is 0 or base is 1.
PowFrac(base, num, den) == Exp(MulDiv(Ln(base), num, den))

\* sqrt(x) for x > 0, by Newton's iteration from 1.  t = <<x, s, fuel>>.
RECURSIVE SqrtNewton(_)
SqrtNewton(t) ==
  LET n == (t[2] + FDiv(t[1], t[2])) \div 2
  IN  IF t[3] = 0 \/ Abs(n - t[2]) <= 1 THEN n ELSE SqrtNewton(<<t[1], n, t[3] - 1>>)
Sqrt(x) == IF x = 0 THEN 0 ELSE SqrtNewton(<<x, FS, 30>>)

----------------------------------------------------------------------------
(* core/mortgage.py *)

MonthsPerYear == 12

\* Variant of monthly_payment: the interest on the full principal and no repayment.
interest_only_payment(principal, annual_rate, years) ==
  IF annual_rate = 0 THEN MulDiv(principal, 1, years * MonthsPerYear)
  ELSE FMul(principal, MulDiv(annual_rate, 1, MonthsPerYear))

\* Variant of monthly_payment: the annual rate and the number of years used as
\* the periodic rate and the number of periods.
payment_annual_compounding(principal, annual_rate, years) ==
  IF annual_rate = 0 THEN MulDiv(principal, 1, years * MonthsPerYear)
  ELSE LET g == PowNat(FS + annual_rate, years)
       IN  MulDiv(FMul(principal, annual_rate), g, g - FS)

\* monthly_payment(principal, annual_rate, years): money.
monthly_payment(principal, annual_rate, years) ==
  IF annual_rate = 0 THEN MulDiv(principal, 1, years * MonthsPerYear)
  ELSE LET r == MulDiv(annual_rate, 1, MonthsPerYear)
           n == years * MonthsPerYear
           g == PowNat(FS + r, n)
       IN  MulDiv(FMul(principal, r), g, g - FS)

\* np.zeros(n): an array indexed 0..n-1.
zeros(n) == [i \in 0..(n - 1) |-> 0]
\* np.full(n, v)
full(n, v) == [i \in 0..(n - 1) |-> v]

\* np.linspace(start, stop, num)[i]: start + i*step with step = (stop - start)/(num - 1);
\* rounded once, on i*(stop - start)/(num - 1), so that the rounding of the step is
\* not multiplied by i.
linspace(start, stop, num, i) == start + MulDiv(i, stop - start, num - 1)

\* An array written front to back is built as a sequence and then read as an array
\* indexed from 0.
Array(s) == [i \in 0..(Len(s) - 1) |-> s[i + 1]]

\* Variant of AmortStep: the whole payment booked as principal.
AmortStepFullPrincipal(st, payment, r, i) ==
  LET interest  == FMul(st.remaining, r)
      remaining == st.remaining - payment
  IN  [remaining          |-> remaining,
       interest_payments  |-> Append(st.interest_payments, interest),
       principal_payments |-> Append(st.principal_payments, payment),
       balance            |-> Append(st.balance, Max(0, remaining))]

\* Pass i of the month loop: the running state is the remaining principal and the
\* three arrays as far as they are written (entries 0..i-1).
AmortStep(st, payment, r, i) ==
  LET interest      == FMul(st.remaining, r)
      principal_pay == payment - interest
      remaining     == st.remaining - principal_pay
  IN  [remaining          |-> remaining,
       interest_payments  |-> Append(st.interest_payments, interest),
       principal_payments |-> Append(st.principal_payments, principal_pay),
       balance            |-> Append(st.balance, Max(0, remaining))]

\* for i in range(lo, hi), t = <<st, payment, r, lo, hi>>: the passes run in
\* order; the range is halved only to bound the depth of the evaluation.
RECURSIVE AmortLoop(_)
AmortLoop(t) ==
  IF t[4] >= t[5] THEN t[1]
  ELSE IF t[5] = t[4] + 1 THEN AmortStep(t[1], t[2], t[3], t[4])
  ELSE LET half == (t[4] + t[5]) \div 2
       IN  AmortLoop(<<AmortLoop(<<t[1], t[2], t[3], t[4], half>>), t[2], t[3], half, t[5]>>)

\* amortization_schedule(principal, annual_rate, years):
\* [interest_payments, principal_payments, balance], arrays indexed 0..years*12-1.
amortization_schedule(principal, annual_rate, years) ==
  LET n_months == years * MonthsPerYear
      payment  == monthly_payment(principal, annual_rate, years)
      r        == MulDiv(annual_rate, 1, MonthsPerYear)
      st       == AmortLoop(<<[remaining          |-> principal,
                               interest_payments  |-> <<>>,
                               principal_payments |-> <<>>,
                               balance            |-> <<>>],
                              payment, r, 0, n_months>>)
  IN  IF annual_rate = 0
      THEN [interest_payments  |-> zeros(n_months),
            principal_payments |-> full(n_months, payment),
            balance            |-> [i \in 0..(n_months - 1) |->
                                      linspace(principal, 0, n_months + 1, i)]]
      ELSE [interest_payments  |-> Array(st.interest_payments),
            principal_payments |-> Array(st.principal_payments),
            balance            |-> Array(st.balance)]

----------------------------------------------------------------------------
(* The seeded random source: np.random.RandomState(seed).                  *)
(* A generator is its seed, the number of normals drawn so far, and the    *)
(* shapes requested so far.  The k-th normal of a seed is a fixed function *)
(* of (seed, k): here a fixed table, standing for the generator's stream.  *)

NormalTable == << -150, 60, -30, 110, 0, -80, 140, -60, 20, -110, 90 >>
Normal(seed, k) ==
  NormalTable[((seed * 7 + k * 3 + (k \div 5)) % Len(NormalTable)) + 1] * (FS \div 100)

\* No generator made yet.
NoGenerator == [seed |-> 0, pos |-> 0, calls |-> <<>>]

\* np.random.RandomState(seed): a new generator at the start of the seed's stream.
RandomState(seed) == [seed |-> seed, pos |-> 0, calls |-> <<>>]

\* Variant of standard_normal: a matrix drawn and discarded before the one returned.
standard_normal_redrawn(rng, rows, cols) ==
  [z   |-> [i \in 0..(rows - 1) |-> [t \in 0..(cols - 1) |->
              Normal(rng.seed, rng.pos + rows * cols + i * cols + t)]],
   rng |-> [seed |-> rng.seed, pos |-> rng.pos + 2 * rows * cols,
            calls |-> rng.calls \o <<<<rows, cols>>, <<rows, cols>>>>]]

\* rng.standard_normal((rows, cols)): the matrix, filled row by row, and the
\* generator advanced by rows*cols.
standard_normal(rng, rows, cols) ==
  [z   |-> [i \in 0..(rows - 1) |-> [t \in 0..(cols - 1) |->
              Normal(rng.seed, rng.pos + i * cols + t)]],
   rng |-> [seed |-> rng.seed, pos |-> rng.pos + rows * cols,
            calls |-> Append(rng.calls, <<rows, cols>>)]]

----------------------------------------------------------------------------
(* core/housing.py, core/mc_equity.py *)

dt == FS \div MonthsPerYear
sqrt_dt == Sqrt(dt)

\* np.exp((mu - 0.5 * sigma**2) * dt + sigma * np.sqrt(dt) * z), one cell.
gbm_return(mu, sigma, z) ==
  Exp(FMul(mu - FMul(FS \div 2, FMul(sigma, sigma)), dt) + FMul(FMul(sigma, sqrt_dt), z))

\* Variant of PathStep: the contribution added before the month's return is applied.
PathStepAddThenMultiply(row, returns, contributions, t) ==
  Append(row, FMul(row[t + 1] + contributions[t], returns[t]))

\* Variant of PathStep: the month's contribution left out.
PathStepWithoutContribution(row, returns, contributions, t) ==
  Append(row, FMul(row[t + 1], returns[t]))

\* The time loop on one path (row): row[t+1] = row[t] * returns[t] (+ contributions[t]).
\* contributions is a row of the contribution grid, or zeros for a home-value path.
\* The row is built as the sequence of its columns 0..t.
PathStep(row, returns, contributions, t) ==
  Append(row, FMul(row[t + 1], returns[t]) + contributions[t])

\* for t in range(lo, hi), s = <<row, returns, contributions, lo, hi>>.
RECURSIVE PathLoop(_)
PathLoop(s) ==
  IF s[4] >= s[5] THEN s[1]
  ELSE IF s[5] = s[4] + 1 THEN PathStep(s[1], s[2], s[3], s[4])
  ELSE LET half == (s[4] + s[5]) \div 2
       IN  PathLoop(<<PathLoop(<<s[1], s[2], s[3], s[4], half>>), s[2], s[3], half, s[5]>>)

\* simulate_home_values(initial_price, mu, sigma, n_months, n_paths, rng):
\* the (n_paths, n_months+1) grid and the generator after the draw.
simulate_home_values(initial_price, mu, sigma, n_months, n_paths, rng) ==
  LET d == standard_normal(rng, n_paths, n_months)
  IN  [paths |-> [i \in 0..(n_paths - 1) |->
                    Array(PathLoop(<<<<initial_price>>,
                             [t \in 0..(n_months - 1) |-> gbm_return(mu, sigma, d.z[i][t])],
                             zeros(n_months), 0, n_months>>))],
       rng   |-> d.rng]

\* Variant of simulate_equity_portfolio: the fee not taken off the drift.
simulate_equity_portfolio_fee_ignored(initial_value, contributions, mu, sigma, fee, n_months, n_paths, rng) ==
  LET d == standard_normal(rng, n_paths, n_months)
  IN  [paths |-> [i \in 0..(n_paths - 1) |->
                    Array(PathLoop(<<<<initial_value>>,
                             [t \in 0..(n_months - 1) |-> gbm_return(mu, sigma, d.z[i][t])],
                             contributions[i], 0, n_months>>))],
       rng   |-> d.rng]

\* simulate_equity_portfolio(initial_value, contributions, mu, sigma, fee, n_months, n_paths, rng):
\* the (n_paths, n_months+1) grid and the generator after the draw.
simulate_equity_portfolio(initial_value, contributions, mu, sigma, fee, n_months, n_paths, rng) ==
  LET mu_adj == mu - fee
      d      == standard_normal(rng, n_paths, n_months)
  IN  [paths |-> [i \in 0..(n_paths - 1) |->
                    Array(PathLoop(<<<<initial_value>>,
                             [t \in 0..(n_months - 1) |-> gbm_return(mu_adj, sigma, d.z[i][t])],
                             contributions[i], 0, n_months>>))],
       rng   |-> d.rng]

----------------------------------------------------------------------------
(* core/compose.py: compose_invest_vs_buy(params)                          *)
(* params is a dict: a function on the keys it holds.  An optional key is  *)
(* read with params.get(key, default); a key holding None is a key absent. *)

Has(params, key) == key \in DOMAIN params
Get(params, key, default) == IF Has(params, key) THEN params[key] ELSE default

\* n/d as a factor.
Frac(n, d) == MulDiv(n, FS, d)

DefaultMipRate     == Frac(85, 10000)
DefaultPmiRemove   == Frac(78, 100)
DefaultPmiRate     == Frac(5, 1000)
DefaultRentGrowth  == Frac(3, 100)
DefaultIncomeGrowth == 0 * FS
DefaultSellingCost == 0 * FS

\* np.full((n_paths, n_months), v), np.zeros((n_paths, n_months))
full2(n_paths, n_months, v) == [i \in 0..(n_paths - 1) |-> full(n_months, v)]
zeros2(n_paths, n_months) == full2(n_paths, n_months, 0)

\* Variant of closing: the upfront premium paid in cash whatever the loan type
\* and the financing choice.
closing_premium_in_cash(params) ==
  LET down_payment == FMul(params.home_price, params.down_payment_pct)
      loan0        == params.home_price - down_payment
      mip0         == FMul(loan0, params.mip_upfront)
  IN  [down_payment  |-> down_payment,
       loan_amount   |-> loan0,
       upfront_mip   |-> mip0,
       closing_costs |-> down_payment + mip0]

\* Lines 18-31: down payment, loan amount, upfront MIP, closing costs.
closing(params) ==
  LET down_payment == FMul(params.home_price, params.down_payment_pct)
      loan0        == params.home_price - down_payment
      fha          == params.loan_type = "FHA"
      mip0         == IF fha THEN FMul(loan0, params.mip_upfront) ELSE 0
      financed     == fha /\ params.mip_finance_upfront
      loan_amt     == IF financed THEN loan0 + mip0 ELSE loan0
      upfront_mip  == IF financed THEN 0 ELSE mip0
  IN  [down_payment  |-> down_payment,
       loan_amount   |-> loan_amt,
       upfront_mip   |-> upfront_mip,
       closing_costs |-> down_payment + upfront_mip]

\* Variant of property_tax: the tax taken on the current home value whatever the
\* tax basis.
property_tax_on_current_value(params, n_paths, n_months, home) ==
  [i \in 0..(n_paths - 1) |-> [t \in 0..(n_months - 1) |->
     FMul(home[i][t], MulDiv(params.property_tax_rate, 1, MonthsPerYear))]]

\* Lines 51-58: property tax under the tax-basis setting.
property_tax(params, n_paths, n_months, home) ==
  IF params.tax_basis = "current"
  THEN [i \in 0..(n_paths - 1) |-> [t \in 0..(n_months - 1) |->
          FMul(home[i][t], MulDiv(params.property_tax_rate, 1, MonthsPerYear))]]
  ELSE full2(n_paths, n_months,
             MulDiv(FMul(params.home_price, params.property_tax_rate), 1, MonthsPerYear))

\* Lines 60-63: insurance + maintenance + HOA of one cell.
other_costs(params, home_value) ==
    FMul(home_value, MulDiv(params.insurance_rate, 1, MonthsPerYear))
  + FMul(home_value, MulDiv(params.maintenance_rate, 1, MonthsPerYear))
  + params.hoa_monthly

\* Variant of savings: the budget held flat.
savings_without_growth(params, n_paths, n_months) ==
  [i \in 0..(n_paths - 1) |-> [t \in 0..(n_months - 1) |-> params.monthly_savings]]

\* Lines 65-70: savings_paths[:, t] = monthly_savings * (1 + income_growth) ** (t / 12).
savings(params, n_paths, n_months) ==
  LET g   == Get(params, "income_growth", DefaultIncomeGrowth)
      row == [t \in 0..(n_months - 1) |->
                FMul(params.monthly_savings, PowFrac(FS + g, t, MonthsPerYear))]
  IN  [i \in 0..(n_paths - 1) |-> row]

\* balance[t] / home_paths[:, t] for one path, the home value not 0.
ltv(bal, home_value) == FDiv(bal, home_value)

\* Variant of ltv_above: the ratio taken to be above every threshold.
ltv_always_above(bal, home_value, threshold) == TRUE

\* balance[t] / home_paths[:, t] > threshold for one path, as numpy evaluates it:
\* x / 0 is inf for x > 0 (above every threshold), nan for x = 0 and -inf for
\* x < 0 (a comparison with either is False); no exception is raised.
ltv_above(bal, home_value, threshold) ==
  IF home_value = 0 THEN bal > 0 ELSE ltv(bal, home_value) > threshold

\* Line 77: the FHA test is an `if` on a whole-path-dimension array, which numpy
\* refuses (ValueError) unless the array has exactly one element.
mip_raises(params, n_paths, n_months) ==
  /\ params.loan_type = "FHA"
  /\ Has(params, "mip_remove_ltv")
  /\ n_months > 0
  /\ n_paths > 1

\* Variant of mip_grid: the premium taken on the first entry of the balance.
mip_grid_on_first_balance(params, n_paths, n_months, bal, home) ==
  LET charged(t) == \/ ~Has(params, "mip_remove_ltv")
                    \/ ltv_above(bal[t], home[0][t], params.mip_remove_ltv)
      mip(t) == FMul(bal[0], MulDiv(Get(params, "mip_rate", DefaultMipRate), 1, MonthsPerYear))
  IN  [i \in 0..(n_paths - 1) |-> [t \in 0..(n_months - 1) |->
         IF charged(t) THEN mip(t) ELSE 0]]

\* Lines 74-78: FHA.  The `if` decides the whole column t; it is evaluated with at
\* most one path when a removal LTV is set (mip_raises otherwise).
mip_grid(params, n_paths, n_months, bal, home) ==
  LET charged(t) == \/ ~Has(params, "mip_remove_ltv")
                    \/ ltv_above(bal[t], home[0][t], params.mip_remove_ltv)
      mip(t) == FMul(bal[t], MulDiv(Get(params, "mip_rate", DefaultMipRate), 1, MonthsPerYear))
  IN  [i \in 0..(n_paths - 1) |-> [t \in 0..(n_months - 1) |->
         IF charged(t) THEN mip(t) ELSE 0]]

\* Variant of pmi_grid: PMI that was removed on a path stays removed.
pmi_grid_sticky(params, n_paths, n_months, bal, home) ==
  LET needs_pmi(i, t) == \A k \in 0..t :
        ltv_above(bal[k], home[i][k], Get(params, "pmi_remove_ltv", DefaultPmiRemove))
      pmi(t) == FMul(bal[t], MulDiv(Get(params, "pmi_rate", DefaultPmiRate), 1, MonthsPerYear))
  IN  [i \in 0..(n_paths - 1) |-> [t \in 0..(n_months - 1) |->
         IF needs_pmi(i, t) THEN pmi(t) ELSE 0]]

\* Lines 79-85: Conventional, np.where per path in column t.
pmi_grid(params, n_paths, n_months, bal, home) ==
  LET needs_pmi(i, t) ==
        ltv_above(bal[t], home[i][t], Get(params, "pmi_remove_ltv", DefaultPmiRemove))
      pmi(t) == FMul(bal[t], MulDiv(Get(params, "pmi_rate", DefaultPmiRate), 1, MonthsPerYear))
  IN  [i \in 0..(n_paths - 1) |-> [t \in 0..(n_months - 1) |->
         IF needs_pmi(i, t) THEN pmi(t) ELSE 0]]

\* Lines 72-85: the PMI/MIP grid.
insurance_grid(params, n_paths, n_months, bal, home) ==
  IF params.loan_type = "FHA"
  THEN mip_grid(params, n_paths, n_months, bal, home)
  ELSE pmi_grid(params, n_paths, n_months, bal, home)

\* Lines 87-89: total housing outflow.
outflow(params, n_paths, n_months, pay, home, ins) ==
  LET tax == property_tax(params, n_paths, n_months, home)
  IN  [i \in 0..(n_paths - 1) |-> [t \in 0..(n_months - 1) |->
         pay + tax[i][t] + other_costs(params, home[i][t]) + ins[i][t]]]

\* Variant of clamped_difference: a - b, not floored.
plain_difference(n_paths, n_months, a, b) ==
  [i \in 0..(n_paths - 1) |-> [t \in 0..(n_months - 1) |-> a[i][t] - b[i][t]]]

\* np.maximum(0, a - b) on grids.
clamped_difference(n_paths, n_months, a, b) ==
  [i \in 0..(n_paths - 1) |-> [t \in 0..(n_months - 1) |-> Max(0, a[i][t] - b[i][t])]]

\* Variant of equity: the selling costs taken off every column.
equity_costs_every_month(params, n_paths, n_months, home, bal) ==
  LET rate == Get(params, "selling_cost_rate", DefaultSellingCost)
  IN  [i \in 0..(n_paths - 1) |-> [t \in 0..n_months |->
         home[i][t] - (IF t < n_months THEN bal[t] ELSE 0)
                    - (IF rate > 0
                       THEN FMul(home[i][t], params.selling_cost_rate) ELSE 0)]]

\* Lines 106-114: home equity, with the selling costs taken off the last column.
equity(params, n_paths, n_months, home, bal) ==
  LET rate == Get(params, "selling_cost_rate", DefaultSellingCost)
  IN  [i \in 0..(n_paths - 1) |-> [t \in 0..n_months |->
         home[i][t] - (IF t < n_months THEN bal[t] ELSE 0)
                    - (IF t = n_months /\ rate > 0
                       THEN FMul(home[i][t], params.selling_cost_rate) ELSE 0)]]

\* Lines 119-124: rent_paths[:, t] = rent * (1 + rent_growth) ** (t / 12).
rents(params, n_paths, n_months) ==
  LET g   == Get(params, "rent_growth", DefaultRentGrowth)
      row == [t \in 0..(n_months - 1) |->
                FMul(params.rent, PowFrac(FS + g, t, MonthsPerYear))]
  IN  [i \in 0..(n_paths - 1) |-> row]

\* Variant of initial_investment: a supplied invest_initial used whatever enforce_parity says.
initial_investment_custom_first(params, costs) == Get(params, "invest_initial", costs)

\* Variant of initial_investment: a month of HOA dues held back from the amount.
initial_investment_net_of_hoa(params, costs) == costs - params.hoa_monthly

\* Variant of initial_investment: the invest side starts with nothing.
initial_investment_nothing(params, costs) == 0

\* Lines 130-134: the invest side's initial amount.
initial_investment(params, costs) ==
  IF Get(params, "enforce_parity", TRUE) THEN costs
  ELSE Get(params, "invest_initial", costs)

\* a + b on (n_paths, n_months+1) grids.
grid_sum(n_paths, n_months, a, b) ==
  [i \in 0..(n_paths - 1) |-> [t \in 0..n_months |-> a[i][t] + b[i][t]]]

\* Variant of buy_net_worth: the liquid portfolio added to the home equity as it was
\* before the selling costs came off its last column.
buy_net_worth_before_selling_costs(params, n_paths, n_months, liquid, home, eq) ==
  LET rate == Get(params, "selling_cost_rate", DefaultSellingCost)
  IN  [i \in 0..(n_paths - 1) |-> [t \in 0..n_months |->
         liquid[i][t] + eq[i][t]
           + (IF t = n_months /\ rate > 0 THEN FMul(home[i][t], rate) ELSE 0)]]

\* Line 117: buy_paths = buy_liquid_paths + home_equity, home_equity being the array
\* lines 112-114 changed in place.
buy_net_worth(params, n_paths, n_months, liquid, home, eq) ==
  grid_sum(n_paths, n_months, liquid, eq)

----------------------------------------------------------------------------
(* Parameter sets the model calls compose_invest_vs_buy with.              *)

MaxPaths == 2
MaxYears == 2
Seeds == {42, 12345}

Dollars(n) == n * MS

BaseParams ==
  [home_price |-> Dollars(200000), down_payment_pct |-> Frac(10, 100),
   loan_type |-> "FHA", mip_upfront |-> Frac(175, 10000), mip_finance_upfront |-> TRUE,
   home_mu |-> Frac(4, 100), home_sigma |-> Frac(10, 100),
   mortgage_rate |-> Frac(6, 100), tax_basis |-> "current",
   property_tax_rate |-> Frac(15, 1000), insurance_rate |-> Frac(4, 1000),
   maintenance_rate |-> Frac(1, 100), hoa_monthly |-> Dollars(100),
   monthly_savings |-> Dollars(20000), rent |-> Dollars(1000),
   equity_mu |-> Frac(7, 100), equity_sigma |-> Frac(15, 100),
   equity_fee |-> Frac(15, 10000)]

CustomInitial == Dollars(5000)

\* Each variant overrides or adds keys of BaseParams.
Variants ==
  { [loan_type |-> "FHA"],
    [enforce_parity |-> TRUE, invest_initial |-> CustomInitial],
    [enforce_parity |-> FALSE, invest_initial |-> CustomInitial],
    [enforce_parity |-> FALSE],
    [mip_finance_upfront |-> FALSE],
    [mip_finance_upfront |-> FALSE, enforce_parity |-> FALSE,
     invest_initial |-> CustomInitial],
    [loan_type |-> "Conventional"],
    [loan_type |-> "Conventional", mip_upfront |-> Frac(3, 100),
     mip_finance_upfront |-> FALSE, enforce_parity |-> TRUE],
    [monthly_savings |-> Dollars(800)],
    [monthly_savings |-> Dollars(3000), income_growth |-> Frac(5, 100)],
    [income_growth |-> Frac(3, 100), rent_growth |-> 0 * FS],
    [mortgage_rate |-> 0 * FS, loan_type |-> "Conventional"],
    [tax_basis |-> "original", selling_cost_rate |-> Frac(7, 100)],
    [mip_remove_ltv |-> Frac(78, 100)],
    [loan_type |-> "Conventional", pmi_rate |-> Frac(5, 1000),
     pmi_remove_ltv |-> Frac(78, 100), home_mu |-> Frac(5, 100), home_sigma |-> 0 * FS],
    [loan_type |-> "Conventional", down_payment_pct |-> Frac(20, 100),
     home_sigma |-> Frac(40, 100)],
    [loan_type |-> "Conventional", home_price |-> Dollars(0 - 200000),
     down_payment_pct |-> Frac(150, 100)],
    [home_sigma |-> 0 - Frac(10, 100)],
    [monthly_savings |-> Dollars(9000), income_growth |-> 0 - Frac(20, 100)] }

\* tests/test_compose.py, test_fairness_baseline: get_city_defaults() with every
\* growth, volatility and cost rate set to 0, Conventional, 20% down, 5% mortgage.
FairnessParams ==
  [home_price |-> Dollars(500000), down_payment_pct |-> Frac(20, 100),
   loan_type |-> "Conventional", mip_upfront |-> Frac(175, 10000),
   mip_finance_upfront |-> TRUE, mip_rate |-> Frac(85, 10000),
   pmi_rate |-> Frac(5, 1000), pmi_remove_ltv |-> Frac(78, 100),
   home_mu |-> 0 * FS, home_sigma |-> 0 * FS,
   mortgage_rate |-> Frac(5, 100), tax_basis |-> "current",
   property_tax_rate |-> 0 * FS, insurance_rate |-> 0 * FS,
   maintenance_rate |-> 0 * FS, hoa_monthly |-> Dollars(0),
   selling_cost_rate |-> 0 * FS, rent_growth |-> 0 * FS,
   monthly_savings |-> Dollars(5000), rent |-> Dollars(2500),
   equity_mu |-> 0 * FS, equity_sigma |-> 0 * FS, equity_fee |-> 0 * FS]

FairnessYears == 10
FairnessSeed == 42

\* The test's scenario, with a larger down payment, and with PMI priced at 0.
FairnessVariants ==
  { [down_payment_pct |-> Frac(20, 100)],
    [down_payment_pct |-> Frac(50, 100)],
    [pmi_rate |-> 0 * FS] }

FairnessScenarios ==
  { v @@ [n_paths |-> n, years |-> y, seed |-> FairnessSeed] @@ FairnessParams :
      v \in FairnessVariants, n \in 1..MaxPaths, y \in (1..MaxYears) \cup {FairnessYears} }

Scenarios ==
  { v @@ [n_paths |-> n, years |-> y, seed |-> sd] @@ BaseParams :
      v \in Variants, n \in 1..MaxPaths, y \in 1..MaxYears, sd \in Seeds }
  \cup FairnessScenarios

----------------------------------------------------------------------------
(* The state: one compose_invest_vs_buy call at a time.  pc is the place   *)
(* of the call in the function body; the other variables are the caller's  *)
(* params, the call's locals, and what the call returned or raised.        *)

VARIABLES
  pc,                   \* "idle", a place in the body, "raised"
  params,               \* the dict passed by the caller
  rng,                  \* the call's np.random.RandomState
  closing_costs, loan_amount,
  home_paths,
  payment, balance,
  pmi_mip, housing_outflow, savings_paths, buy_contributions,
  buy_liquid_paths,
  home_equity, buy_paths,
  rent_paths, invest_contributions, invest_initial,
  invest_paths,
  results,              \* <<the dict returned>>, or <<>> while there is none
  exc,                  \* the exception raised, "" while there is none
  kept,                 \* <<[params, results]>> of an earlier call the caller kept
  m_call, m_ret,        \* a direct call of a core/mortgage.py function, its value
  e_rng,                \* the generator of a direct caller of simulate_equity_portfolio
  e_call, e_ret,        \* such a call (arguments, generator handed in), its value
  e_kept,               \* <<[call, ret]>> of an earlier such call the caller kept
  s_call, s_ret,        \* a direct call of a core/stats.py function, its value
  a_hash,               \* app.py's process: hash(city_name) % 1000 of each city
  a_main, a_city        \* a run of app.py: the seed of the main comparison and of
                        \* each city overlay comparison

locals == <<closing_costs, loan_amount, home_paths, payment, balance, pmi_mip,
            housing_outflow, savings_paths, buy_contributions, buy_liquid_paths,
            home_equity, buy_paths, rent_paths, invest_contributions,
            invest_initial, invest_paths>>

extras == <<s_call, s_ret, a_hash, a_main, a_city>>

direct == <<m_call, m_ret, e_rng, e_call, e_ret, e_kept, extras>>

vars == <<pc, params, rng, locals, results, exc, kept, direct>>

n_paths == params.n_paths
n_months == params.years * MonthsPerYear

Init ==
  /\ pc = "idle"
  /\ params = <<>>
  /\ rng = NoGenerator
  /\ closing_costs = 0 /\ loan_amount = 0
  /\ home_paths = <<>>
  /\ payment = 0 /\ balance = <<>>
  /\ pmi_mip = <<>> /\ housing_outflow = <<>> /\ savings_paths = <<>>
  /\ buy_contributions = <<>>
  /\ buy_liquid_paths = <<>>
  /\ home_equity = <<>> /\ buy_paths = <<>>
  /\ rent_paths = <<>> /\ invest_contributions = <<>> /\ invest_initial = 0
  /\ invest_paths = <<>>
  /\ results = <<>>
  /\ exc = ""
  /\ kept = <<>>
  /\ m_call = <<>> /\ m_ret = <<>>
  /\ e_rng = NoGenerator
  /\ e_call = <<>> /\ e_ret = <<>> /\ e_kept = <<>>
  /\ s_call = <<>> /\ s_ret = <<>>
  /\ a_hash = <<>> /\ a_main = <<>> /\ a_city = <<>>

\* Variant of call_generator: one generator for the process, made by the first call.
process_generator(p) == IF rng = NoGenerator THEN RandomState(p.seed) ELSE rng

\* Line 16: rng = np.random.RandomState(params["seed"]), a generator of the call's own.
call_generator(p) == RandomState(p.seed)

\* Lines 8-31: entry, the generator, the closing costs.
Enter(p) ==
  /\ pc \in {"idle", "raised"}
  /\ params' = p
  /\ rng' = call_generator(p)
  /\ closing_costs' = closing(p).closing_costs
  /\ loan_amount' = closing(p).loan_amount
  /\ home_paths' = <<>>
  /\ payment' = 0 /\ balance' = <<>>
  /\ pmi_mip' = <<>> /\ housing_outflow' = <<>> /\ savings_paths' = <<>>
  /\ buy_contributions' = <<>>
  /\ buy_liquid_paths' = <<>>
  /\ home_equity' = <<>> /\ buy_paths' = <<>>
  /\ rent_paths' = <<>> /\ invest_contributions' = <<>> /\ invest_initial' = 0
  /\ invest_paths' = <<>>
  /\ results' = <<>>
  /\ exc' = ""
  /\ pc' = "home"
  /\ UNCHANGED <<kept, direct>>

\* A run of Spec is one call, from a caller that has made none before.
Call == params = <<>> /\ \E p \in Scenarios : Enter(p)

\* Lines 33-41.
SimulateHome ==
  /\ pc = "home"
  /\ LET h == simulate_home_values(params.home_price, params.home_mu,
                                   params.home_sigma, n_months, n_paths, rng)
     IN  home_paths' = h.paths /\ rng' = h.rng
  /\ pc' = "mortgage"
  /\ UNCHANGED <<params, closing_costs, loan_amount, payment, balance, pmi_mip,
                 housing_outflow, savings_paths, buy_contributions, buy_liquid_paths,
                 home_equity, buy_paths, rent_paths, invest_contributions,
                 invest_initial, invest_paths, results, exc, kept, direct>>

\* Lines 43-49.
Mortgage ==
  /\ pc = "mortgage"
  /\ payment' = monthly_payment(loan_amount, params.mortgage_rate, params.years)
  /\ balance' = amortization_schedule(loan_amount, params.mortgage_rate,
                                      params.years).balance
  /\ pc' = "costs"
  /\ UNCHANGED <<params, rng, closing_costs, loan_amount, home_paths, pmi_mip,
                 housing_outflow, savings_paths, buy_contributions, buy_liquid_paths,
                 home_equity, buy_paths, rent_paths, invest_contributions,
                 invest_initial, invest_paths, results, exc, kept, direct>>

\* Lines 51-92: costs, budget, mortgage insurance, outflow, buy contributions.
Costs ==
  /\ pc = "costs"
  /\ IF mip_raises(params, n_paths, n_months)
     THEN /\ pc' = "raised"
          /\ exc' = "ValueError"
          /\ savings_paths' = savings(params, n_paths, n_months)
          /\ pmi_mip' = zeros2(n_paths, n_months)
          /\ UNCHANGED <<housing_outflow, buy_contributions>>
     ELSE /\ pc' = "buy"
          /\ exc' = exc
          /\ savings_paths' = savings(params, n_paths, n_months)
          /\ pmi_mip' = insurance_grid(params, n_paths, n_months, balance, home_paths)
          /\ housing_outflow' = outflow(params, n_paths, n_months, payment,
                                        home_paths, pmi_mip')
          /\ buy_contributions' = clamped_difference(n_paths, n_months,
                                                     savings_paths', housing_outflow')
  /\ UNCHANGED <<params, rng, closing_costs, loan_amount, home_paths, payment, balance,
                 buy_liquid_paths, home_equity, buy_paths, rent_paths,
                 invest_contributions, invest_initial, invest_paths, results,
                 kept, direct>>

\* Lines 94-104.
BuyLiquid ==
  /\ pc = "buy"
  /\ LET b == simulate_equity_portfolio(0, buy_contributions, params.equity_mu,
                                        params.equity_sigma, params.equity_fee,
                                        n_months, n_paths, rng)
     IN  buy_liquid_paths' = b.paths /\ rng' = b.rng
  /\ pc' = "equity"
  /\ UNCHANGED <<params, closing_costs, loan_amount, home_paths, payment, balance,
                 pmi_mip, housing_outflow, savings_paths, buy_contributions,
                 home_equity, buy_paths, rent_paths, invest_contributions,
                 invest_initial, invest_paths, results, exc, kept, direct>>

\* Lines 106-117.
HomeEquity ==
  /\ pc = "equity"
  /\ home_equity' = equity(params, n_paths, n_months, home_paths, balance)
  /\ buy_paths' = buy_net_worth(params, n_paths, n_months, buy_liquid_paths,
                              home_paths, home_equity')
  /\ pc' = "rent"
  /\ UNCHANGED <<params, rng, closing_costs, loan_amount, home_paths, payment, balance,
                 pmi_mip, housing_outflow, savings_paths, buy_contributions,
                 buy_liquid_paths, rent_paths, invest_contributions,
                 invest_initial, invest_paths, results, exc, kept, direct>>

\* Lines 119-134.
Rent ==
  /\ pc = "rent"
  /\ rent_paths' = rents(params, n_paths, n_months)
  /\ invest_contributions' = clamped_difference(n_paths, n_months,
                                                savings_paths, rent_paths')
  /\ invest_initial' = initial_investment(params, closing_costs)
  /\ pc' = "invest"
  /\ UNCHANGED <<params, rng, closing_costs, loan_amount, home_paths, payment, balance,
                 pmi_mip, housing_outflow, savings_paths, buy_contributions,
                 buy_liquid_paths, home_equity, buy_paths, invest_paths, results, exc, kept, direct>>

\* Lines 136-146.
Invest ==
  /\ pc = "invest"
  /\ LET v == simulate_equity_portfolio(invest_initial, invest_contributions,
                                        params.equity_mu, params.equity_sigma,
                                        params.equity_fee, n_months, n_paths, rng)
     IN  invest_paths' = v.paths /\ rng' = v.rng
  /\ pc' = "return"
  /\ UNCHANGED <<params, closing_costs, loan_amount, home_paths, payment, balance,
                 pmi_mip, housing_outflow, savings_paths, buy_contributions,
                 buy_liquid_paths, home_equity, buy_paths, rent_paths,
                 invest_contributions, invest_initial, results, exc, kept, direct>>

\* Lines 148-161: the returned dict.
bundle ==
  [invest_paths |-> invest_paths, buy_paths |-> buy_paths, rent_paths |-> rent_paths,
   home_paths |-> home_paths, buy_liquid_paths |-> buy_liquid_paths,
   home_equity |-> home_equity, closing_costs |-> closing_costs,
   payment |-> payment, n_months |-> n_months,
   invest_contributions |-> invest_contributions,
   buy_contributions |-> buy_contributions, housing_outflow |-> housing_outflow]

\* The caller receives the dict: as the result at hand, or put aside with its params
\* to compare a later result with.
ReturnTo(keep) ==
  /\ pc = "return"
  /\ results' = IF keep THEN <<>> ELSE <<bundle>>
  /\ kept' = IF keep THEN <<[params |-> params, results |-> bundle]>> ELSE kept
  /\ pc' = "idle"
  /\ UNCHANGED <<params, rng, locals, exc, direct>>

Return == ReturnTo(FALSE)

Next ==
  \/ Call
  \/ SimulateHome
  \/ Mortgage
  \/ Costs
  \/ BuyLiquid
  \/ HomeEquity
  \/ Rent
  \/ Invest
  \/ Return

Spec == Init /\ [][Next]_vars

----------------------------------------------------------------------------
(* Properties of a compose_invest_vs_buy call (specification Spec).  In the *)
(* formulas a unit is one dollar, MS in money units.                        *)

Paths == 0..(n_paths - 1)
Months == 0..(n_months - 1)

\* The call at hand has returned its dict to the caller.
Returned == pc = "idle" /\ results # <<>>
\* The call at hand has passed the place (it is later in the body, or has returned).
BuySideBudgeted == pc \in {"buy", "equity", "rent", "invest", "return"} \/ Returned
InvestSideBudgeted == pc \in {"invest", "return"} \/ Returned

ParityEnforced == Get(params, "enforce_parity", TRUE)

\* C1: with parity enforced (enforce_parity true or absent) column 0 of the returned
\* invest_paths is the returned closing_costs on every path; with parity disabled
\* and an invest_initial X supplied, column 0 of invest_paths is X on every path.
ParityInitialAmount ==
  Returned =>
    /\ ParityEnforced =>
         \A i \in Paths : results[1].invest_paths[i][0] = results[1].closing_costs
    /\ (~ParityEnforced /\ Has(params, "invest_initial")) =>
         \A i \in Paths : results[1].invest_paths[i][0] = params.invest_initial

\* A call with parity disabled has returned paths that start at the custom amount,
\* which is not the closing costs.
ParityDisabledCustomReturned ==
  /\ Returned
  /\ ~ParityEnforced
  /\ Has(params, "invest_initial")
  /\ params.invest_initial # results[1].closing_costs
  /\ \A i \in Paths : results[1].invest_paths[i][0] = CustomInitial

\* C2: on every path and month, whatever the parameters (budgets below the rent or
\* below the housing outflow included), invest_contributions >= 0 and
\* buy_contributions >= 0, in the call's locals and in the dict it returns.
ContributionsNonNegative ==
  /\ BuySideBudgeted => \A i \in Paths, t \in Months : buy_contributions[i][t] >= 0
  /\ InvestSideBudgeted => \A i \in Paths, t \in Months : invest_contributions[i][t] >= 0
  /\ Returned => \A i \in Paths, t \in Months :
                    /\ results[1].buy_contributions[i][t] >= 0
                    /\ results[1].invest_contributions[i][t] >= 0

\* A returned call whose budget is below the rent and below the housing outflow in
\* some month: both contributions of that month are 0.
BudgetBelowCostsReturned ==
  /\ Returned
  /\ \E i \in Paths, t \in Months :
       /\ savings_paths[i][t] < rent_paths[i][t]
       /\ savings_paths[i][t] < housing_outflow[i][t]
       /\ results[1].invest_contributions[i][t] = 0
       /\ results[1].buy_contributions[i][t] = 0

\* The number of draws a call has made when it stands at pc.
DrawsMadeAt(place) ==
  CASE place = "home" -> 0
    [] place \in {"mortgage", "costs", "buy", "raised"} -> 1
    [] place \in {"equity", "rent", "invest"} -> 2
    [] OTHER -> 3

\* The call's generator after k draws of the call.
GeneratorAfter(k) ==
  [seed |-> params.seed, pos |-> k * n_paths * n_months,
   calls |-> [j \in 1..k |-> <<n_paths, n_months>>]]

Near(a, b, tol) == Abs(a - b) <= tol

GrowthTolerance == FS \div 1000

\* value = base * (1 + g)^(t/12), stated without the fractional power:
\* (value/base)^12 = (1 + g)^t, to within GrowthTolerance.
GrowsFrom(value, base, g, t) ==
  /\ t = 0 => value = base
  /\ Near(PowNat(FDiv(value, base), MonthsPerYear), PowNat(FS + g, t), GrowthTolerance)

\* C5: both strategies draw on one budget S(t) = S0*(1+g)^(t/12): on every path and
\* month t, invest_contributions = max(0, S(t) - rent(t)) with
\* rent(t) = rent0*(1+rent_growth)^(t/12), and
\* buy_contributions = max(0, S(t) - housing_outflow(t)), housing_outflow being the
\* returned outflow grid.  (The budget and the rent are the same on every path: the
\* growth law is stated on path 0.)
SharedBudget ==
  /\ BuySideBudgeted =>
       /\ \A t \in Months :
            GrowsFrom(savings_paths[0][t], params.monthly_savings,
                      Get(params, "income_growth", DefaultIncomeGrowth), t)
       /\ \A i \in Paths, t \in Months :
            /\ savings_paths[i][t] = savings_paths[0][t]
            /\ buy_contributions[i][t]
                 = Max(0, savings_paths[i][t] - housing_outflow[i][t])
  /\ InvestSideBudgeted =>
       /\ \A t \in Months :
            GrowsFrom(rent_paths[0][t], params.rent,
                      Get(params, "rent_growth", DefaultRentGrowth), t)
       /\ \A i \in Paths, t \in Months :
            /\ rent_paths[i][t] = rent_paths[0][t]
            /\ invest_contributions[i][t] = Max(0, savings_paths[i][t] - rent_paths[i][t])
  /\ Returned => \A i \in Paths, t \in Months :
       /\ results[1].rent_paths[i][t] = rent_paths[i][t]
       /\ results[1].invest_contributions[i][t]
            = Max(0, savings_paths[i][t] - results[1].rent_paths[i][t])
       /\ results[1].buy_contributions[i][t]
            = Max(0, savings_paths[i][t] - results[1].housing_outflow[i][t])

\* A returned call with a growing budget, in a month after the first where both
\* strategies contribute.
GrowingBudgetReturned ==
  /\ Returned
  /\ Get(params, "income_growth", DefaultIncomeGrowth) > 0
  /\ \E i \in Paths, t \in Months :
       /\ t > 0
       /\ savings_paths[i][t] > params.monthly_savings
       /\ results[1].invest_contributions[i][t] > 0
       /\ results[1].buy_contributions[i][t] > 0

\* C6: closing_costs is the down payment plus the upfront premium only when the
\* premium is not financed.  FHA, premium financed: the premium goes on the loan and
\* closing_costs = down payment.  FHA, not financed: closing_costs = down payment +
\* (price - down payment)*mip_upfront and the loan is price - down payment.
\* Conventional: closing_costs = down payment and mip_upfront has no effect.
ClosingCostsByLoanType ==
  params # <<>> =>
    LET down   == FMul(params.home_price, params.down_payment_pct)
        base   == params.home_price - down
        fha    == params.loan_type = "FHA"
        costs  == IF Returned THEN results[1].closing_costs ELSE closing_costs
    IN  /\ (fha /\ params.mip_finance_upfront) =>
             /\ costs = down
             /\ loan_amount = base + FMul(base, params.mip_upfront)
        /\ (fha /\ ~params.mip_finance_upfront) =>
             /\ costs = down + FMul(base, params.mip_upfront)
             /\ loan_amount = base
        /\ params.loan_type = "Conventional" =>
             /\ costs = down
             /\ loan_amount = base

\* A returned FHA call whose premium was paid in cash: the closing costs exceed the
\* down payment.
CashPremiumReturned ==
  /\ Returned
  /\ params.loan_type = "FHA"
  /\ ~params.mip_finance_upfront
  /\ results[1].closing_costs > FMul(params.home_price, params.down_payment_pct)
  /\ loan_amount = params.home_price - FMul(params.home_price, params.down_payment_pct)

----------------------------------------------------------------------------
(* Direct calls of the core/mortgage.py functions (as tests/test_mortgage.py *)
(* makes them), one call in a run: a grid of loans, and the loans the tests  *)
(* use.                                                                      *)

TestTermYears == 30

Principals == {Dollars(1000), Dollars(7777), Dollars(50000), Dollars(183150),
               Dollars(250000), Dollars(360000), Dollars(400000)}
AnnualRates == {0 * FS, Frac(3, 100), Frac(6, 100), Frac(12, 100)}

Loans ==
  {[principal |-> pr, annual_rate |-> ar, years |-> y] :
      pr \in Principals, ar \in AnnualRates, y \in 1..MaxYears}
  \cup {[principal |-> Dollars(400000), annual_rate |-> Frac(6, 100), years |-> TestTermYears],
        [principal |-> Dollars(360000), annual_rate |-> 0 * FS, years |-> TestTermYears]}

CallMonthlyPayment ==
  \E a \in Loans :
    /\ m_call = <<>>
    /\ m_call' = <<[fn |-> "monthly_payment"] @@ a>>
    /\ m_ret' = <<monthly_payment(a.principal, a.annual_rate, a.years)>>
    /\ UNCHANGED <<pc, params, rng, locals, results, exc, kept, e_rng, e_call, e_ret, e_kept,
                   extras>>

CallAmortizationSchedule ==
  \E a \in Loans :
    /\ m_call = <<>>
    /\ m_call' = <<[fn |-> "amortization_schedule"] @@ a>>
    /\ m_ret' = <<amortization_schedule(a.principal, a.annual_rate, a.years)>>
    /\ UNCHANGED <<pc, params, rng, locals, results, exc, kept, e_rng, e_call, e_ret, e_kept,
                   extras>>

NextMortgage == CallMonthlyPayment \/ CallAmortizationSchedule

SpecMortgage == Init /\ [][NextMortgage]_vars

----------------------------------------------------------------------------
(* Properties of the core/mortgage.py functions (specification SpecMortgage). *)

PaymentCalled == m_call # <<>> /\ m_call[1].fn = "monthly_payment"
ScheduleCalled == m_call # <<>> /\ m_call[1].fn = "amortization_schedule"

\* The months of the schedule at hand, and its last month.
ScheduleMonths == 0..(m_call[1].years * MonthsPerYear - 1)
LastMonth == m_call[1].years * MonthsPerYear - 1

\* f[lo] + ... + f[hi]
RECURSIVE SumOver(_, _, _)
SumOver(f, lo, hi) ==
  IF lo > hi THEN 0
  ELSE IF lo = hi THEN f[lo]
  ELSE LET mid == (lo + hi) \div 2
       IN  SumOver(f, lo, mid) + SumOver(f, mid + 1, hi)

\* C7: in every schedule (any principal, any rate, rate 0 included, any term)
\* interest[i] + principal[i] is monthly_payment(principal, rate, years) in every
\* month i.
InterestPlusPrincipalIsPayment ==
  ScheduleCalled =>
    \A i \in ScheduleMonths :
      m_ret[1].interest_payments[i] + m_ret[1].principal_payments[i]
        = monthly_payment(m_call[1].principal, m_call[1].annual_rate, m_call[1].years)

\* The schedule of the 30-year test loan at a non-zero rate, with interest and
\* principal both paid in the first and in the last month.
LongScheduleReturned ==
  /\ ScheduleCalled
  /\ m_call[1].annual_rate > 0
  /\ m_call[1].years = TestTermYears
  /\ m_ret[1].interest_payments[0] > m_ret[1].principal_payments[0]
  /\ m_ret[1].principal_payments[0] > 0
  /\ m_ret[1].interest_payments[LastMonth] > 0
  /\ m_ret[1].principal_payments[LastMonth] > m_ret[1].interest_payments[LastMonth]

\* C8: in every schedule (any principal P, any rate, rate 0 included, any term) the
\* monthly principal payments sum to P within 1 unit.
PrincipalConserved ==
  ScheduleCalled =>
    Near(SumOver(m_ret[1].principal_payments, 0, LastMonth), m_call[1].principal, MS)

\* The schedule of a 30-year loan at a non-zero rate whose principal payments do not
\* sum to the principal exactly, yet within the unit.
InexactSumReturned ==
  /\ ScheduleCalled
  /\ m_call[1].annual_rate > 0
  /\ m_call[1].years = TestTermYears
  /\ SumOver(m_ret[1].principal_payments, 0, LastMonth) # m_call[1].principal
  /\ Near(SumOver(m_ret[1].principal_payments, 0, LastMonth), m_call[1].principal, MS)

\* C9: the balance of every schedule (any principal, any term, any rate, the
\* zero-rate branch included) is non-increasing, never negative, and its last
\* element is 0 within 1 unit.
BalanceFallsToZero ==
  ScheduleCalled =>
    /\ \A i \in ScheduleMonths : m_ret[1].balance[i] >= 0
    /\ \A i \in ScheduleMonths : i > 0 => m_ret[1].balance[i] <= m_ret[1].balance[i - 1]
    /\ Near(m_ret[1].balance[LastMonth], 0, MS)

PaymentTolerance == MS \div 100

\* The expected payment of tests/test_mortgage.py, in money units.
ExpectedTestPayment == 2398200

\* C10: monthly_payment is principal/(years*12) exactly at rate 0, and otherwise the
\* annuity value principal*r*(1+r)^n/((1+r)^n - 1) with r = annual_rate/12 and
\* n = years*12 (stated as payment*((1+r)^n - 1) = principal*r*(1+r)^n); it is about
\* 2398.20 for 400000 at 6% over 30 years; the schedule's first interest is
\* principal*r and its first principal payment is the payment minus that interest.
PaymentIsAnnuity ==
  LET P == m_call[1].principal
      r == MulDiv(m_call[1].annual_rate, 1, MonthsPerYear)
      n == m_call[1].years * MonthsPerYear
      g == PowNat(FS + r, n)
  IN  /\ (PaymentCalled /\ m_call[1].annual_rate = 0) =>
           2 * Abs(m_ret[1] * n - P) <= n
      /\ (PaymentCalled /\ m_call[1].annual_rate # 0) =>
           Near(FMul(m_ret[1], g - FS), FMul(FMul(P, r), g), PaymentTolerance)
      /\ (PaymentCalled /\ P = Dollars(400000) /\ m_call[1].annual_rate = Frac(6, 100)
            /\ m_call[1].years = TestTermYears) =>
           Near(m_ret[1], ExpectedTestPayment, MS)
      /\ ScheduleCalled =>
           /\ m_ret[1].interest_payments[0] = FMul(P, r)
           /\ m_ret[1].principal_payments[0]
                = monthly_payment(P, m_call[1].annual_rate, m_call[1].years) - FMul(P, r)

\* The payment of the test loan (400000 at 6% over 30 years) has been returned.
TestPaymentReturned ==
  /\ PaymentCalled
  /\ m_call[1].principal = Dollars(400000)
  /\ m_call[1].annual_rate = Frac(6, 100)
  /\ m_call[1].years = TestTermYears
  /\ Near(m_ret[1], ExpectedTestPayment, PaymentTolerance)

----------------------------------------------------------------------------
(* Repeated calls: a caller that keeps the result of one call and compares  *)
(* a later one with it (tests/test_compose.py, tests/test_mc_equity.py:     *)
(* test_deterministic_seed).  A run is a session of compose callers or a    *)
(* session of direct simulate_equity_portfolio callers.                     *)

RepeatVariants ==
  { [loan_type |-> "FHA"],
    [monthly_savings |-> Dollars(3000), income_growth |-> Frac(5, 100)],
    [loan_type |-> "Conventional"],
    [mortgage_rate |-> Frac(3, 100)],
    [tax_basis |-> "original", selling_cost_rate |-> Frac(7, 100),
     hoa_monthly |-> Dollars(300)],
    [mip_rate |-> Frac(12, 1000), property_tax_rate |-> Frac(2, 100),
     insurance_rate |-> Frac(6, 1000), maintenance_rate |-> Frac(2, 100)] }

RepeatScenarios ==
  { v @@ [n_paths |-> MaxPaths, years |-> 1, seed |-> sd] @@ BaseParams :
      v \in RepeatVariants, sd \in Seeds }

CallRepeat ==
  /\ e_call = <<>> /\ e_rng = NoGenerator
  /\ \E p \in RepeatScenarios : Enter(p)

ReturnRepeat == \E keep \in BOOLEAN : (keep => kept = <<>>) /\ ReturnTo(keep)

MaxMonths == 3
MaxRuns == 2

\* np.full((n_paths, n_months), c); np.tile(np.arange(n_months) * c, (n_paths, 1))
ContributionGrid(kind, c, np, nm) ==
  [i \in 0..(np - 1) |-> [t \in 0..(nm - 1) |->
     IF kind = "full" THEN c ELSE t * c]]

RepeatEquityArgs ==
  {[initial_value |-> Dollars(50000), kind |-> k, c |-> Dollars(1000),
    mu |-> Frac(8, 100), sigma |-> Frac(16, 100), fee |-> Frac(15, 10000),
    n_months |-> nm, n_paths |-> MaxPaths] :
      k \in {"full", "arange"}, nm \in {MaxMonths}}

\* rng = np.random.RandomState(seed) in a direct caller.
EquitySeed ==
  /\ params = <<>>
  /\ \E sd \in Seeds : e_rng' = RandomState(sd)
  /\ UNCHANGED <<pc, params, rng, locals, results, exc, kept, m_call, m_ret,
                 e_call, e_ret, e_kept, extras>>

\* A direct call simulate_equity_portfolio(..., rng) with the caller's generator.
EquityRun(a, keep) ==
  /\ params = <<>>
  /\ e_rng # NoGenerator
  /\ Len(e_rng.calls) < MaxRuns
  /\ LET r == simulate_equity_portfolio(a.initial_value,
                  ContributionGrid(a.kind, a.c, a.n_paths, a.n_months),
                  a.mu, a.sigma, a.fee, a.n_months, a.n_paths, e_rng)
         c == [args |-> a, rng |-> e_rng]
     IN  /\ e_call' = <<c>>
         /\ e_ret' = IF keep THEN <<>> ELSE <<r.paths>>
         /\ e_rng' = r.rng
         /\ e_kept' = IF keep THEN <<[call |-> c, ret |-> r.paths]>> ELSE e_kept
  /\ UNCHANGED <<pc, params, rng, locals, results, exc, kept, m_call, m_ret, extras>>

EquityRepeat ==
  \E a \in RepeatEquityArgs, keep \in BOOLEAN : (keep => e_kept = <<>>) /\ EquityRun(a, keep)

NextRepeat ==
  \/ CallRepeat
  \/ SimulateHome
  \/ Mortgage
  \/ Costs
  \/ BuyLiquid
  \/ HomeEquity
  \/ Rent
  \/ Invest
  \/ ReturnRepeat
  \/ EquitySeed
  \/ EquityRepeat

SpecRepeat == Init /\ [][NextRepeat]_vars

----------------------------------------------------------------------------
(* Properties of repeated calls (specification SpecRepeat).                 *)

\* The caller holds the results of two compose calls made with one params dict
\* (same seed, same parameters): the one kept and the one at hand.
SameComposeCallTwice == Returned /\ kept # <<>> /\ kept[1].params = params

\* The caller holds the grids of two simulate_equity_portfolio calls made with the
\* same arguments, each with a generator freshly seeded with the same seed.
SameEquityCallTwice ==
  /\ e_ret # <<>> /\ e_kept # <<>>
  /\ e_call[1].args = e_kept[1].call.args
  /\ e_call[1].rng.pos = 0 /\ e_kept[1].call.rng.pos = 0
  /\ e_call[1].rng.seed = e_kept[1].call.rng.seed

\* C3: two compose calls with the same seed and the same parameters return the same
\* invest_paths, buy_paths and every other grid of the dict, whatever compose calls
\* were made before or between them; two simulate_equity_portfolio calls with
\* generators freshly seeded with the same seed return the same grid.
SameSeedSameResults ==
  /\ SameComposeCallTwice => results[1] = kept[1].results
  /\ SameEquityCallTwice => e_ret[1] = e_kept[1].ret

\* The same compose call has returned twice, and its grids are not what a call
\* with another seed would have had for its home prices.
RepeatedCallReturned ==
  /\ SameComposeCallTwice
  /\ results[1].invest_paths = kept[1].results.invest_paths
  /\ results[1].buy_paths = kept[1].results.buy_paths
  /\ \E sd \in Seeds :
       results[1].home_paths #
         simulate_home_values(params.home_price, params.home_mu, params.home_sigma,
                              n_months, n_paths, RandomState(sd)).paths

\* The same direct simulate_equity_portfolio call has returned twice from fresh
\* generators of one seed.
RepeatedEquityReturned == SameEquityCallTwice /\ e_ret[1] = e_kept[1].ret

----------------------------------------------------------------------------
(* Direct calls of simulate_equity_portfolio, as tests/test_mc_equity.py    *)
(* makes them: a generator seeded by the caller, a contribution grid, one   *)
(* call.  A run is one such call.                                           *)

EquityInitials == {Dollars(0), Dollars(5000), Dollars(10000), Dollars(100000)}
EquityContributions == {Dollars(0), Dollars(100), Dollars(1000)}
EquityDynamics == {[mu |-> 0 * FS, sigma |-> 0 * FS],
                   [mu |-> Frac(7, 100), sigma |-> Frac(15, 100)]}
EquityFees == {0 * FS, Frac(1, 100)}

EquityArgs(kind) ==
  {[initial_value |-> v, kind |-> kind, c |-> c, mu |-> d.mu, sigma |-> d.sigma,
    fee |-> f, n_months |-> nm, n_paths |-> np] :
      v \in EquityInitials, c \in EquityContributions, d \in EquityDynamics,
      f \in EquityFees, nm \in 1..MaxMonths, np \in 1..MaxPaths}

\* rng = np.random.RandomState(seed); paths = simulate_equity_portfolio(..., rng=rng).
EquityCall(a, sd) ==
  /\ params = <<>> /\ e_call = <<>>
  /\ LET g == RandomState(sd)
         r == simulate_equity_portfolio(a.initial_value,
                  ContributionGrid(a.kind, a.c, a.n_paths, a.n_months),
                  a.mu, a.sigma, a.fee, a.n_months, a.n_paths, g)
     IN  /\ e_call' = <<[args |-> a, rng |-> g]>>
         /\ e_ret' = <<r.paths>>
         /\ e_rng' = r.rng
  /\ UNCHANGED <<pc, params, rng, locals, results, exc, kept, m_call, m_ret, e_kept,
                 extras>>

\* test_zero_returns_with_contributions, test_fee_drag: a constant contribution grid.
CallEquityConstant == \E a \in EquityArgs("full"), sd \in Seeds : EquityCall(a, sd)

\* test_variable_contributions: contributions np.arange(n_months) * c on every path.
CallEquityVariable == \E a \in EquityArgs("arange"), sd \in Seeds : EquityCall(a, sd)

NextEquity == CallEquityConstant \/ CallEquityVariable

SpecEquity == Init /\ [][NextEquity]_vars

----------------------------------------------------------------------------
(* Properties of a direct simulate_equity_portfolio call (SpecEquity).      *)

EquityReturned == e_call # <<>> /\ e_ret # <<>>

EquityPaths == 0..(e_call[1].args.n_paths - 1)

\* The contribution grid the call was given.
GivenContributions ==
  ContributionGrid(e_call[1].args.kind, e_call[1].args.c,
                   e_call[1].args.n_paths, e_call[1].args.n_months)

\* C11: with mu = sigma = 0 and no fee, on every path the value in column t + 1 is
\* the initial value plus the path's contributions of months 0..t, so the terminal
\* value is the initial value plus all contributions (I + n*c for a constant c),
\* whatever seed the generator had.
ZeroReturnsSumContributions ==
  (EquityReturned /\ e_call[1].args.mu = 0 /\ e_call[1].args.sigma = 0
                  /\ e_call[1].args.fee = 0) =>
    LET a == e_call[1].args
    IN  \A i \in EquityPaths :
          /\ e_ret[1][i][0] = a.initial_value
          /\ \A t \in 0..(a.n_months - 1) :
               e_ret[1][i][t + 1] =
                 a.initial_value + SumOver(GivenContributions[i], 0, t)
          /\ a.kind = "full" => e_ret[1][i][a.n_months] = a.initial_value + a.n_months * a.c

\* A zero-return, zero-fee call with varying, positive contributions over several
\* months has returned.
ZeroReturnsVariableReturned ==
  /\ EquityReturned
  /\ e_call[1].args.mu = 0 /\ e_call[1].args.sigma = 0 /\ e_call[1].args.fee = 0
  /\ e_call[1].args.kind = "arange" /\ e_call[1].args.c > 0
  /\ e_call[1].args.n_months = MaxMonths /\ e_call[1].args.n_paths = MaxPaths
  /\ e_call[1].rng.seed = 12345
  /\ e_ret[1][0][MaxMonths] > e_ret[1][0][MaxMonths - 1]
  /\ e_ret[1][0][MaxMonths - 1] > e_call[1].args.initial_value

\* np.mean(paths[:, -1])
mean_terminal(paths, np, nm) ==
  MulDiv(SumOver([i \in 0..(np - 1) |-> paths[i][nm]], 0, np - 1), 1, np)

\* The terminal mean of the same call (same seed, same arguments) with fee = 0.
ZeroFeeMean ==
  LET a == e_call[1].args
  IN  mean_terminal(simulate_equity_portfolio(a.initial_value, GivenContributions,
                       a.mu, a.sigma, 0, a.n_months, a.n_paths, e_call[1].rng).paths,
                    a.n_paths, a.n_months)

ReturnedMean == mean_terminal(e_ret[1], e_call[1].args.n_paths, e_call[1].args.n_months)

\* Money is exposed to a month's return: a positive initial value, or a positive
\* contribution made before the last month.
MoneyAtWork ==
  LET a == e_call[1].args
  IN  \/ a.initial_value > 0
      \/ \E t \in 0..(a.n_months - 2) : GivenContributions[0][t] > 0

\* C12 as stated: a call with a strictly positive fee has a strictly lower mean
\* terminal value than the same call with zero fee.
FeeLowersMean ==
  (EquityReturned /\ e_call[1].args.fee > 0) => ReturnedMean < ZeroFeeMean

\* C12: a call with a strictly positive fee, in which money is exposed to a month's
\* return, has a strictly lower mean terminal value than the same call with zero
\* fee; a call in which no money is exposed has the same mean terminal value.
FeeLowersMeanOfMoneyAtWork ==
  (EquityReturned /\ e_call[1].args.fee > 0) =>
    IF MoneyAtWork THEN ReturnedMean < ZeroFeeMean ELSE ReturnedMean = ZeroFeeMean

\* A call with a fee, random returns and money at work from the first month has
\* returned.
FeeDragReturned ==
  /\ EquityReturned
  /\ e_call[1].args.fee > 0 /\ e_call[1].args.sigma > 0
  /\ e_call[1].args.initial_value = Dollars(100000) /\ e_call[1].args.c = 0
  /\ e_call[1].args.n_months = MaxMonths /\ e_call[1].args.n_paths = MaxPaths
  /\ ReturnedMean < ZeroFeeMean

----------------------------------------------------------------------------
(* Mortgage insurance of a compose_invest_vs_buy call (specification Spec). *)

Conventional == params # <<>> /\ params.loan_type = "Conventional"
FHA == params # <<>> /\ params.loan_type = "FHA"

\* The insurance grid of the call has been filled.
Insured == BuySideBudgeted

\* balance[t] * (rate / 12)
Premium(t, rate) == FMul(balance[t], MulDiv(rate, 1, MonthsPerYear))

PmiRate == Get(params, "pmi_rate", DefaultPmiRate)
PmiRemove == Get(params, "pmi_remove_ltv", DefaultPmiRemove)
MipRate == Get(params, "mip_rate", DefaultMipRate)

\* The loan-to-value of path i in month t (home value not 0).
Ltv(i, t) == ltv(balance[t], home_paths[i][t])

\* C13: Conventional loan: in every (path, month) PMI is balance * pmi_rate / 12 if
\* that path's loan-to-value in that month exceeds the removal threshold (default
\* 0.78) and 0 otherwise, a function of that month's balance and that path's home
\* value alone.
PmiByPathAndMonth ==
  (Insured /\ Conventional) =>
    \A i \in Paths : \A t \in Months :
      pmi_mip[i][t] = IF home_paths[i][t] # 0 /\ Ltv(i, t) > PmiRemove
                      THEN Premium(t, PmiRate) ELSE 0

\* On one path of a returned Conventional call PMI was off in a month and is charged
\* in a later month, while another path of the same call differs in that month.
PmiChargedAgainReturned ==
  /\ Returned /\ Conventional /\ n_paths > 1
  /\ \E i \in Paths : \E t \in Months : \E u \in Months :
       /\ t < u
       /\ pmi_mip[i][t] = 0 /\ Ltv(i, t) < PmiRemove
       /\ pmi_mip[i][u] > 0 /\ Ltv(i, u) > PmiRemove
       /\ \E j \in Paths : pmi_mip[j][t] > 0

\* C14: FHA loan with no removal LTV: MIP = balance * mip_rate / 12 is charged on
\* every path in every month, whatever the home values are.
MipEveryMonth ==
  (Insured /\ FHA /\ ~Has(params, "mip_remove_ltv")) =>
    \A i \in Paths : \A t \in Months :
      /\ pmi_mip[i][t] = Premium(t, MipRate)
      /\ balance[t] > MS => pmi_mip[i][t] > 0

\* A returned FHA call without removal LTV charged MIP on a path in a month in which
\* the path's loan-to-value was below 0.78, and in the last month.
MipBelowThresholdReturned ==
  /\ Returned /\ FHA /\ ~Has(params, "mip_remove_ltv") /\ n_paths > 1
  /\ \E i \in Paths : \E t \in Months :
       Ltv(i, t) < DefaultPmiRemove /\ pmi_mip[i][t] > 0
  /\ pmi_mip[1][n_months - 2] > 0

\* C15: FHA loan with a removal LTV: the call does not raise, whatever the number of
\* paths, and in every (path, month) MIP is 0 if that path's loan-to-value is below
\* the removal LTV and balance * mip_rate / 12 otherwise.
MipRemovedPerPath ==
  (FHA /\ Has(params, "mip_remove_ltv")) =>
    /\ pc # "raised" /\ exc = ""
    /\ Insured =>
         \A i \in Paths : \A t \in Months :
           pmi_mip[i][t] = IF Ltv(i, t) < params.mip_remove_ltv
                           THEN 0 ELSE Premium(t, MipRate)

\* The scenario of test_pmi_removal: Conventional, 10% down, appreciation without
\* volatility.
PmiScenario ==
  /\ Conventional
  /\ params.down_payment_pct = Frac(10, 100)
  /\ params.home_sigma = 0 /\ params.home_mu > 0

\* C16: in the PMI scenario insurance is charged in month 0 and in every month up to
\* the first one in which the path's loan-to-value is below the removal threshold;
\* in that month and in every later month it is 0.
PmiDropsForGood ==
  (Insured /\ PmiScenario) =>
    \A i \in Paths :
      /\ pmi_mip[i][0] > 0
      /\ \A t \in Months :
           /\ (\A k \in 0..t : Ltv(i, k) > PmiRemove) => pmi_mip[i][t] = Premium(t, PmiRate)
           /\ Ltv(i, t) < PmiRemove => \A u \in t..(n_months - 1) : pmi_mip[i][u] = 0

\* A returned call of the PMI scenario charged PMI for at least two months, then
\* dropped it with at least two months of the horizon left.
PmiDroppedReturned ==
  /\ Returned /\ PmiScenario
  /\ \E t \in Months :
       /\ t >= 2 /\ t + 1 \in Months
       /\ pmi_mip[0][t - 1] > 0 /\ pmi_mip[0][t] = 0 /\ pmi_mip[0][n_months - 1] = 0

\* C17: in a (path, month) whose home value is not positive, mortgage insurance is
\* charged as if the loan-to-value were not below the removal threshold.
NonPositiveValueInsured ==
  Insured =>
    \A i \in Paths : \A t \in Months :
      home_paths[i][t] <= 0 =>
        pmi_mip[i][t] = Premium(t, IF FHA THEN MipRate ELSE PmiRate)

\* The invariants of SimulationParameters the params dict breaks.
InvalidParams ==
  /\ params # <<>>
  /\ \/ params.home_sigma < 0 \/ params.equity_sigma < 0
     \/ params.n_paths <= 0 \/ params.years <= 0
     \/ params.down_payment_pct < 0 \/ params.down_payment_pct > FS

\* C18: a call with invalid params is rejected with a configuration error before an
\* array is allocated or a number drawn, and returns nothing.
InvalidParamsRejected ==
  InvalidParams =>
    /\ rng.pos = 0 /\ home_paths = <<>> /\ balance = <<>>
    /\ results = <<>>
    /\ pc \in {"home", "raised"} /\ (pc = "raised" => exc = "ConfigurationError")

----------------------------------------------------------------------------
(* Home equity of a compose_invest_vs_buy call (specification Spec).        *)

\* home_equity of the call has been computed.
EquityComputed == pc \in {"rent", "invest", "return"} \/ Returned

SellingCostRate == Get(params, "selling_cost_rate", DefaultSellingCost)

\* The loan balance outstanding after t monthly payments: the loan amount less the
\* principal parts of the payments 0..t-1 of the schedule, not below 0.
RemainingAfter(t) ==
  LET sched == amortization_schedule(loan_amount, params.mortgage_rate, params.years)
  IN  Max(0, loan_amount - SumOver(sched.principal_payments, 0, t - 1))

\* C19: in every path and every month t before the terminal one, home equity is the
\* home value less the balance outstanding after t payments (at t = 0 the home
\* price less the loan amount), to the dollar, for zero and non-zero mortgage rates.
EquityIsValueLessBalance ==
  EquityComputed =>
    \A i \in Paths :
      /\ Near(home_equity[i][0], params.home_price - loan_amount, MS)
      /\ \A t \in Months :
           Near(home_equity[i][t], home_paths[i][t] - RemainingAfter(t), MS)

\* The params of the call with the selling costs set to 0.
WithoutSellingCosts == [selling_cost_rate |-> 0 * FS] @@ params

\* C20: with selling_cost_rate > 0 the terminal home equity of every path is the
\* one of the same call with rate 0 less home_value(T) * selling_cost_rate, once;
\* in every earlier month it is the same as with rate 0; with the rate 0 or absent
\* home equity is home value less balance in every month.
SellingCostsAtTerminalOnly ==
  EquityComputed =>
    LET plain == equity(WithoutSellingCosts, n_paths, n_months, home_paths, balance)
    IN  \A i \in Paths :
          /\ \A t \in Months :
               /\ home_equity[i][t] = plain[i][t]
               /\ home_equity[i][t] = home_paths[i][t] - balance[t]
          /\ plain[i][n_months] = home_paths[i][n_months]
          /\ home_equity[i][n_months] =
               IF SellingCostRate > 0
               THEN plain[i][n_months] - FMul(home_paths[i][n_months], SellingCostRate)
               ELSE plain[i][n_months]

\* A call with selling costs has returned: on each of its paths the terminal home
\* equity is below the terminal home value, and the equity of the months before is
\* home value less balance.
SellingCostsReturned ==
  /\ Returned /\ n_paths > 1 /\ n_months > MonthsPerYear
  /\ SellingCostRate > 0
  /\ \A i \in Paths :
       /\ results[1].home_equity[i][n_months] < home_paths[i][n_months]
       /\ results[1].home_equity[i][n_months - 1] =
            home_paths[i][n_months - 1] - balance[n_months - 1]

----------------------------------------------------------------------------
(* The returned dict of a compose_invest_vs_buy call (specification Spec).  *)

FullHorizon == 0..n_months

\* C21: in the returned dict buy_paths is buy_liquid_paths + home_equity in every
\* path and every column 0..n_months, the terminal column included, where the
\* returned home_equity is the one after the selling costs.
BuyPathsIsLiquidPlusEquity ==
  Returned =>
    \A i \in Paths : \A t \in FullHorizon :
      results[1].buy_paths[i][t] =
        results[1].buy_liquid_paths[i][t] + results[1].home_equity[i][t]

\* A call with selling costs has returned a buy net worth whose terminal column is
\* the liquid portfolio, positive, plus home value less selling costs.
NetWorthWithSellingCostsReturned ==
  /\ Returned /\ n_paths > 1 /\ SellingCostRate > 0
  /\ \A i \in Paths :
       /\ results[1].buy_liquid_paths[i][n_months] > 0
       /\ results[1].buy_paths[i][n_months] =
            results[1].buy_liquid_paths[i][n_months] + results[1].home_paths[i][n_months]
              - FMul(results[1].home_paths[i][n_months], SellingCostRate)

----------------------------------------------------------------------------
(* Housing costs of a compose_invest_vs_buy call (specification Spec).      *)

\* value * (rate / 12)
MonthlyShare(value, rate) == FMul(value, MulDiv(rate, 1, MonthsPerYear))

\* The property tax the tax-basis policy asks for in path i, month t.
PolicyTax(i, t) ==
  IF params.tax_basis = "current"
  THEN MonthlyShare(home_paths[i][t], params.property_tax_rate)
  ELSE MulDiv(FMul(params.home_price, params.property_tax_rate), 1, MonthsPerYear)

\* C22: housing_outflow of path i in month t is the payment, the property tax of
\* the tax-basis policy ("current": the path's home value at t times rate/12;
\* "original": purchase price times rate/12, one constant), insurance and
\* maintenance on the path's home value at t under both settings, HOA and the
\* mortgage insurance.
OutflowFollowsTaxBasis ==
  Insured =>
    \A i \in Paths : \A t \in Months :
      housing_outflow[i][t] =
          payment + PolicyTax(i, t)
        + MonthlyShare(home_paths[i][t], params.insurance_rate)
        + MonthlyShare(home_paths[i][t], params.maintenance_rate)
        + params.hoa_monthly + pmi_mip[i][t]

\* A call with tax_basis "original" has returned: two paths with different home
\* values in a month carry the same tax there, so their outflows differ by the
\* insurance and maintenance of the two home values alone.
OriginalBasisReturned ==
  /\ Returned /\ n_paths > 1 /\ params.tax_basis = "original"
  /\ \E t \in Months :
       /\ home_paths[0][t] > home_paths[1][t] + Dollars(1000)
       /\ PolicyTax(0, t) = PolicyTax(1, t)
       /\ MonthlyShare(home_paths[0][t], params.property_tax_rate) # PolicyTax(0, t)
       /\ results[1].housing_outflow[0][t] - results[1].housing_outflow[1][t] =
              MonthlyShare(home_paths[0][t], params.insurance_rate)
            - MonthlyShare(home_paths[1][t], params.insurance_rate)
            + MonthlyShare(home_paths[0][t], params.maintenance_rate)
            - MonthlyShare(home_paths[1][t], params.maintenance_rate)

----------------------------------------------------------------------------
(* core/stats.py                                                           *)

\* The k-th smallest (k = 1..n) of x[0..n-1].
KthSmallest(x, n, k) ==
  x[CHOOSE i \in 0..(n - 1) :
      /\ Cardinality({j \in 0..(n - 1) : x[j] < x[i]}) < k
      /\ k <= Cardinality({j \in 0..(n - 1) : x[j] <= x[i]})]

\* np.percentile(x, 50) of x[0..n-1]: the middle value, or the mean of the two
\* middle values (linear interpolation at index (n - 1) / 2).
median(x, n) ==
  IF n % 2 = 1 THEN KthSmallest(x, n, (n + 1) \div 2)
  ELSE MulDiv(KthSmallest(x, n, n \div 2) + KthSmallest(x, n, n \div 2 + 1), 1, 2)

\* paths[:, -1] of an (n, nm + 1) grid.
terminal(paths, n, nm) == [i \in 0..(n - 1) |-> paths[i][nm]]

----------------------------------------------------------------------------
(* The fairness baseline (specification Spec).                             *)

\* Every growth, volatility and cost rate is 0, the loan is Conventional with at
\* least 20% down.
Degenerate ==
  /\ Conventional
  /\ params.down_payment_pct >= Frac(20, 100)
  /\ params.home_mu = 0 /\ params.home_sigma = 0
  /\ params.equity_mu = 0 /\ params.equity_sigma = 0 /\ params.equity_fee = 0
  /\ params.property_tax_rate = 0 /\ params.insurance_rate = 0
  /\ params.maintenance_rate = 0 /\ params.hoa_monthly = 0
  /\ Get(params, "selling_cost_rate", DefaultSellingCost) = 0
  /\ Get(params, "rent_growth", DefaultRentGrowth) = 0
  /\ Get(params, "income_growth", DefaultIncomeGrowth) = 0

\* invest_p50 / buy_p50 of the returned dict (lines 36-41 of the test).
MedianRatio ==
  FDiv(median(terminal(results[1].invest_paths, n_paths, n_months), n_paths),
       median(terminal(results[1].buy_paths, n_paths, n_months), n_paths))

RatioInBand == Frac(65, 100) < MedianRatio /\ MedianRatio < Frac(135, 100)

----------------------------------------------------------------------------
(* core/stats.py: probability_a_beats_b, max_drawdown.  A float the code    *)
(* can return is a number, nan or -inf.                                     *)

Num(x) == [kind |-> "num", v |-> x]
NaN == [kind |-> "nan", v |-> 0]
NegInf == [kind |-> "-inf", v |-> 0]

\* paths.shape[0], and the index of the last column.
Rows(paths) == 0..(Cardinality(DOMAIN paths) - 1)
LastColumn(paths) == Cardinality(DOMAIN paths[0]) - 1

\* Variant of probability_a_beats_b: a tie counted as a win.
probability_a_at_least_b(a_paths, b_paths) ==
  MulDiv(Cardinality({i \in Rows(a_paths) :
                        a_paths[i][LastColumn(a_paths)] >= b_paths[i][LastColumn(b_paths)]}),
         FS, Cardinality(Rows(a_paths)))

\* Line 27: np.mean(a_paths[:, -1] > b_paths[:, -1]), as a factor.
probability_a_beats_b(a_paths, b_paths) ==
  MulDiv(Cardinality({i \in Rows(a_paths) :
                        a_paths[i][LastColumn(a_paths)] > b_paths[i][LastColumn(b_paths)]}),
         FS, Cardinality(Rows(a_paths)))

\* Line 40: np.maximum.accumulate(paths[i]) at column t.
cummax(row, t) == CHOOSE m \in {row[k] : k \in 0..t} : \A k \in 0..t : row[k] <= m

\* Line 41: one cell of (paths[i] - cummax) / cummax.  The value is never above
\* its running maximum; a division by 0 gives nan for 0 / 0 and -inf for x / 0 with
\* x < 0, with a warning and no exception.
dd(row, t) ==
  LET m == cummax(row, t)
  IN  IF m = 0 THEN (IF row[t] = m THEN NaN ELSE NegInf)
      ELSE Num(FDiv(row[t] - m, m))

\* Line 42: np.min(dd); a nan in the array makes the minimum nan.
np_min(cells) ==
  IF \E t \in DOMAIN cells : cells[t].kind = "nan" THEN NaN
  ELSE IF \E t \in DOMAIN cells : cells[t].kind = "-inf" THEN NegInf
  ELSE Num(CHOOSE v \in {cells[t].v : t \in DOMAIN cells} :
             \A t \in DOMAIN cells : v <= cells[t].v)

\* Lines 38-43: the drawdown of each path.
max_drawdown(paths) ==
  [i \in Rows(paths) |-> np_min([t \in 0..LastColumn(paths) |-> dd(paths[i], t)])]

\* Paths of three columns: a portfolio that starts at 0 and stays there, one that
\* starts at 0 and grows, a dip and a recovery, a rise, a late fall.
StatsRows ==
  { Array(<<Dollars(0), Dollars(0), Dollars(0)>>),
    Array(<<Dollars(0), Dollars(100), Dollars(250)>>),
    Array(<<Dollars(200), Dollars(100), Dollars(300)>>),
    Array(<<Dollars(100), Dollars(200), Dollars(200)>>),
    Array(<<Dollars(200), Dollars(200), Dollars(100)>>) }

StatsGrids(n) == [0..(n - 1) -> StatsRows]

\* Grids of simulate_equity_portfolio as compose_invest_vs_buy calls it: the buy
\* side's liquid portfolio (initial value 0) and the invest side's.
EngineGrids ==
  { simulate_equity_portfolio(v, ContributionGrid("full", c, n, MaxMonths),
                              Frac(7, 100), Frac(15, 100), Frac(15, 10000),
                              MaxMonths, n, RandomState(sd)).paths :
      v \in {Dollars(0), Dollars(10000)}, c \in {Dollars(0), Dollars(1000)},
      n \in 1..MaxPaths, sd \in Seeds }

StatsCall(fn, a, b, ret) ==
  /\ params = <<>> /\ s_call = <<>>
  /\ s_call' = <<[fn |-> fn, a |-> a, b |-> b]>>
  /\ s_ret' = <<ret>>
  /\ UNCHANGED <<pc, params, rng, locals, results, exc, kept, m_call, m_ret,
                 e_rng, e_call, e_ret, e_kept, a_hash, a_main, a_city>>

\* prob = probability_a_beats_b(a, b) on two grids of one shape.
CallProbability ==
  \E n \in 1..MaxPaths : \E a \in StatsGrids(n), b \in StatsGrids(n) :
    StatsCall("probability_a_beats_b", a, b, probability_a_beats_b(a, b))

\* max_drawdown(paths) on a grid.
CallMaxDrawdown ==
  \E paths \in UNION {StatsGrids(n) : n \in 1..MaxPaths} \cup EngineGrids :
    StatsCall("max_drawdown", paths, <<>>, max_drawdown(paths))

NextStats == CallProbability \/ CallMaxDrawdown

SpecStats == Init /\ [][NextStats]_vars

----------------------------------------------------------------------------
(* Properties of the statistics (specification SpecStats).                  *)

ProbabilityCalled == s_call # <<>> /\ s_call[1].fn = "probability_a_beats_b"
DrawdownCalled == s_call # <<>> /\ s_call[1].fn = "max_drawdown"

\* The paths on which the first grid's terminal value is above, below, equal to
\* the second's.
Wins == {i \in Rows(s_call[1].a) :
           s_call[1].a[i][LastColumn(s_call[1].a)] > s_call[1].b[i][LastColumn(s_call[1].b)]}
Losses == {i \in Rows(s_call[1].a) :
             s_call[1].a[i][LastColumn(s_call[1].a)] < s_call[1].b[i][LastColumn(s_call[1].b)]}
Ties == {i \in Rows(s_call[1].a) :
           s_call[1].a[i][LastColumn(s_call[1].a)] = s_call[1].b[i][LastColumn(s_call[1].b)]}

\* C24: probability_a_beats_b(a, b) is the number of paths whose terminal value in
\* a is strictly above the one in b, over the number of paths: a tie counts for
\* neither side, the value is in [0, 1], and with the value of the call the other
\* way round it sums to at most 1, to 1 exactly when no path ties.
ProbabilityCountsStrictWins ==
  ProbabilityCalled =>
    LET n     == Cardinality(Rows(s_call[1].a))
        other == probability_a_beats_b(s_call[1].b, s_call[1].a)
    IN  /\ s_ret[1] = MulDiv(Cardinality(Wins), FS, n)
        /\ other = MulDiv(Cardinality(Losses), FS, n)
        /\ 0 <= s_ret[1] /\ s_ret[1] <= FS
        /\ s_ret[1] + other <= FS
        /\ s_ret[1] + other = FS <=> Ties = {}

\* A call on grids with a path that ties and a path that wins has returned 1/2, and
\* the call the other way round gives 0.
TieAndWinReturned ==
  /\ ProbabilityCalled
  /\ Cardinality(Wins) = 1 /\ Cardinality(Ties) = 1 /\ Losses = {}
  /\ s_ret[1] = FS \div 2
  /\ probability_a_beats_b(s_call[1].b, s_call[1].a) = 0

\* The path never falls below its running maximum.
NeverFalls(row) == \A t \in DOMAIN row : row[t] >= cummax(row, t)

\* C25: max_drawdown returns for each path of a grid a number, at most 0, that is
\* the minimum over the columns of (value - running maximum) / running maximum,
\* and 0 exactly when the path never falls below its running maximum.
DrawdownIsNumber ==
  DrawdownCalled =>
    \A i \in Rows(s_call[1].a) :
      LET row == s_call[1].a[i]
      IN  /\ s_ret[1][i].kind = "num"
          /\ s_ret[1][i].v <= 0
          /\ s_ret[1][i].v = 0 <=> NeverFalls(row)
          /\ \A t \in DOMAIN row : cummax(row, t) # 0 =>
               s_ret[1][i].v <= FDiv(row[t] - cummax(row, t), cummax(row, t))

----------------------------------------------------------------------------
(* The monthly step of simulate_equity_portfolio (specification SpecEquity). *)

\* The return factor of path i in month t of the call: the draw z[i][t] of the
\* generator handed in, with the fee taken off the drift.
ReturnOf(i, t) ==
  LET a == e_call[1].args
  IN  gbm_return(a.mu - a.fee, a.sigma,
                 Normal(e_call[1].rng.seed, e_call[1].rng.pos + i * a.n_months + t))

\* C26: column 0 is the initial value, with no contribution, and in every month
\* value(t + 1) = value(t) * return(t) + contribution(t): the contribution of month
\* t is added after the month's return is applied.
MultiplyThenAdd ==
  EquityReturned =>
    \A i \in EquityPaths :
      /\ e_ret[1][i][0] = e_call[1].args.initial_value
      /\ \A t \in 0..(e_call[1].args.n_months - 1) :
           e_ret[1][i][t + 1] =
             FMul(e_ret[1][i][t], ReturnOf(i, t)) + GivenContributions[i][t]

\* A call with random returns and positive contributions has returned: the first
\* contribution earned nothing in month 0 and earned the return of month 1.
ContributionEarnsNextMonthReturned ==
  /\ EquityReturned
  /\ e_call[1].args.sigma > 0 /\ e_call[1].args.kind = "full"
  /\ e_call[1].args.c > 0 /\ e_call[1].args.initial_value = 0
  /\ e_call[1].args.n_months >= 2
  /\ ReturnOf(0, 0) # FS /\ ReturnOf(0, 1) # FS
  /\ e_ret[1][0][1] = e_call[1].args.c
  /\ e_ret[1][0][2] = FMul(e_call[1].args.c, ReturnOf(0, 1)) + e_call[1].args.c

----------------------------------------------------------------------------
(* The portfolios of a compose_invest_vs_buy call (specification Spec).     *)

\* buy_liquid_paths, invest_paths of the call have been simulated.
BuyLiquidSimulated == pc \in {"equity", "rent", "invest", "return"} \/ Returned
InvestSimulated == pc = "return" \/ Returned

\* C27: the buy side's liquid portfolio is 0 in column 0 of every path and is not
\* negative in any column, months with a housing outflow above the budget
\* included; invest_paths is not negative when its initial amount is not.
PortfoliosNotNegative ==
  /\ BuyLiquidSimulated =>
       \A i \in Paths :
         /\ buy_liquid_paths[i][0] = 0
         /\ \A t \in FullHorizon : buy_liquid_paths[i][t] >= 0
  /\ (InvestSimulated /\ invest_initial >= 0) =>
       \A i \in Paths : \A t \in FullHorizon : invest_paths[i][t] >= 0

\* A call has returned in which the outflow was above the budget in a month after
\* the liquid portfolio had grown: the portfolio was not drawn on in that month.
DeficitNotBorrowedReturned ==
  /\ Returned /\ invest_initial > 0
  /\ \E i \in Paths : \E t \in Months :
       /\ t > 0
       /\ housing_outflow[i][t] > savings_paths[i][t] + Dollars(10)
       /\ results[1].buy_liquid_paths[i][t] > 0
       /\ results[1].buy_liquid_paths[i][t + 1] =
            FMul(results[1].buy_liquid_paths[i][t],
                 gbm_return(params.equity_mu - params.equity_fee, params.equity_sigma,
                            Normal(params.seed, n_paths * n_months + i * n_months + t)))

----------------------------------------------------------------------------
(* PMI and the down payment (specification Spec).                           *)

\* C28: on a Conventional loan with a down payment of at least 20% no PMI is
\* charged on any path in any month.
NoPmiFromTwentyDown ==
  (Insured /\ Conventional /\ params.down_payment_pct >= Frac(20, 100)) =>
    \A i \in Paths : \A t \in Months : pmi_mip[i][t] = 0

----------------------------------------------------------------------------
(* app.py: a process of the application and the runs of its script.  Each   *)
(* run makes the main comparison with the seed of the sidebar and, when the *)
(* city overlay is shown, one comparison per city with the seed             *)
(* params["seed"] + hash(city_name) % 1000.  compose_invest_vs_buy makes a  *)
(* generator of its own from the seed it is given (call_generator), so a    *)
(* comparison's random stream is fixed by its seed.  hash() of a str is     *)
(* salted per process: its residue is any of 0..HashModulus-1, the same in  *)
(* every run of one process.                                                *)

Cities == {"Chicago", "Tampa"}

HashModulus == 1000

\* The residues the model lets hash(city_name) % 1000 take.
MaxResidue == 4
HashResidues == 0..Min(MaxResidue, HashModulus - 1)

\* Seeds the sidebar's number_input may hold.
MainSeeds == Seeds \cup {0, 7}

\* The interpreter starts: the process's str hashes are fixed.
StartApp ==
  /\ params = <<>> /\ m_call = <<>> /\ e_call = <<>> /\ s_call = <<>>
  /\ a_hash = <<>>
  /\ \E h \in [Cities -> HashResidues] : a_hash' = h
  /\ UNCHANGED <<pc, params, rng, locals, results, exc, kept, m_call, m_ret,
                 e_rng, e_call, e_ret, e_kept, s_call, s_ret, a_main, a_city>>

\* Line 340: "seed": params["seed"] + hash(city_name) % 1000
city_seed(seed, city) == seed + a_hash[city]

\* Lines 324-352: one run of the script.
RunApp ==
  /\ a_hash # <<>>
  /\ \E seed \in MainSeeds, show_city_overlay \in BOOLEAN :
       /\ a_main' = <<seed>>
       /\ a_city' = IF show_city_overlay
                    THEN <<[c \in Cities |-> city_seed(seed, c)]>>
                    ELSE <<>>
  /\ UNCHANGED <<pc, params, rng, locals, results, exc, kept, m_call, m_ret,
                 e_rng, e_call, e_ret, e_kept, s_call, s_ret, a_hash>>

NextApp == StartApp \/ RunApp

SpecApp == Init /\ [][NextApp]_vars

\* C29: the seeds of the city overlay comparisons of a run differ from each other
\* and from the seed of the run's main comparison.
OverlaySeedsDistinct ==
  a_city # <<>> =>
    /\ a_city[1]["Chicago"] # a_city[1]["Tampa"]
    /\ \A c \in Cities : a_city[1][c] # a_main[1]

----------------------------------------------------------------------------
(* Two calls that differ in buy-side costs (specification SpecRepeat).      *)

\* The keys of params that price the buy side's monthly and terminal costs.
BuyCostKeys ==
  {"mortgage_rate", "property_tax_rate", "insurance_rate", "maintenance_rate",
   "hoa_monthly", "pmi_rate", "pmi_remove_ltv", "mip_rate", "mip_remove_ltv",
   "tax_basis", "selling_cost_rate"}

\* p and q hold the same value under every key that is not a buy-side cost.
SameButBuyCosts(p, q) ==
  \A k \in (DOMAIN p \cup DOMAIN q) \ BuyCostKeys :
    Has(p, k) /\ Has(q, k) /\ p[k] = q[k]

\* The caller holds the results of two calls whose params differ in buy-side costs
\* only.
CostsOnlyDiffer ==
  /\ Returned /\ kept # <<>>
  /\ SameButBuyCosts(kept[1].params, params)

=============================================================================
